---------------------------- MODULE Spec2Model ----------------------------
(***************************************************************************)
(* StringStore (src/datastructure/string.go): a map from string keys to    *)
(* entries (value, createdAt, expiresAt) guarded by one sync.RWMutex, with *)
(* a background goroutine that removes expired entries.                    *)
(*                                                                         *)
(* Strings are sequences of one-character strings, so that fmt.Sscanf and  *)
(* fmt.Sprintf are modelled by what they do to the characters.  Times are  *)
(* integers: ZeroTime is time.Time{} and the clock starts after it.  Go's  *)
(* int is modelled with IntBits bits, two's complement, wrapping.          *)
(*                                                                         *)
(* Every method is two steps: it takes the lock and reads what it reads    *)
(* first (Set the clock for createdAt, Increment the entry), and later     *)
(* does the rest, unlocks and returns.  The clock, the other goroutines    *)
(* and backgroundCleanup may step in between, as far as the lock lets      *)
(* them.                                                                   *)
(***************************************************************************)
EXTENDS Integers, Sequences, FiniteSets, TLC

\* ------------------------------------------------------------- bounds
\* Width of Go's int in the model.
IntBits == 2
\* The clock runs from StartTime to MaxTime.
MaxTime == 3
\* Number of caller goroutines.
NumThreads == 2

\* ------------------------------------------------------------- domains
Threads == 1..NumThreads
\* The goroutine NewStringStore starts for backgroundCleanup.
Sweeper == 0
KeySet == {"a", "b"}
IncKey == "a"
ZeroTime == 0
StartTime == ZeroTime + 1
\* The arguments callers pass.  Set: key "a" with a decimal integer, a
\* non-numeric string and digits followed by another character, expiring
\* at once or one time unit later; key "b" with one value.  Increment: key
\* "a", up and down.
SetValues == { <<"1">>, <<"x">>, <<"1", "x">> }
Durations == {0, 1}
SetInputs ==
  { <<"a", v, d>> : v \in SetValues, d \in Durations } \cup { <<"b", <<"x">>, 1>> }
IncrementInputs == { <<"a", -1>>, <<"a", 1>> }

MinInt == -(2 ^ (IntBits - 1))
MaxInt == (2 ^ (IntBits - 1)) - 1

\* Go's int addition: two's complement, wrapping at IntBits bits.
WrapInt(n) == ((n - MinInt) % (2 ^ IntBits)) + MinInt

\* ------------------------------------------------------------- strings
DigitChars == <<"0", "1", "2", "3", "4", "5", "6", "7", "8", "9">>
IsDigit(c) == \E i \in 1..10 : DigitChars[i] = c
DigitVal(c) == (CHOOSE i \in 1..10 : DigitChars[i] = c) - 1
IsSpace(c) == c \in {" ", "\t", "\r"}

RECURSIVE NatDigits(_)
NatDigits(n) ==
  IF n < 10 THEN <<DigitChars[n + 1]>>
  ELSE Append(NatDigits(n \div 10), DigitChars[(n % 10) + 1])

\* fmt.Sprintf("%d", n)
Sprintf_d(n) == IF n < 0 THEN <<"-">> \o NatDigits(-n) ELSE NatDigits(n)

RECURSIVE SkipSpace(_)
SkipSpace(s) ==
  IF s # <<>> /\ IsSpace(Head(s)) THEN SkipSpace(Tail(s)) ELSE s

RECURSIVE ScanDigits(_, _)
\* The value of the longest prefix of digits of s, continuing from acc.
ScanDigits(s, acc) ==
  IF s # <<>> /\ IsDigit(Head(s))
  THEN ScanDigits(Tail(s), 10 * acc + DigitVal(Head(s)))
  ELSE acc

\* fmt.Sscanf(s, "%d", &v): skips leading space, accepts one sign, then
\* needs at least one digit and reads the longest run of digits; what
\* follows the digits is not looked at.  The value must fit an int.
Sscanf_d(s) ==
  LET t    == SkipSpace(s)
      neg  == t # <<>> /\ Head(t) = "-"
      sgn  == t # <<>> /\ Head(t) \in {"+", "-"}
      u    == IF sgn THEN Tail(t) ELSE t
      mag  == ScanDigits(u, 0)
      v    == IF neg THEN -mag ELSE mag
  IN  IF u = <<>> \/ ~IsDigit(Head(u)) THEN [err |-> TRUE, v |-> 0]
      ELSE IF v < MinInt \/ v > MaxInt THEN [err |-> TRUE, v |-> 0]
      ELSE [err |-> FALSE, v |-> v]

\* ------------------------------------------------------------- state
VARIABLES
  data,    \* s.data: the map, a function from the stored keys to entries
  mu,      \* s.mu: the goroutines holding it, [writers, readers]
  now,     \* the clock time.Now() reads
  frame,   \* per caller goroutine: where it is in its call, and its locals
  sweep,   \* backgroundCleanup: "wait" (on ticker.C) or "locked"
  ret,     \* what the call that returned in the last step returned
  hist,    \* history: per key, the callers' last operations on it
  obs      \* history of the concurrent Increments of SpecInc: what each
           \* goroutine's call returned, the number IncKey held when the
           \* first call took the lock, whether cleanup removed IncKey since

vars == <<data, mu, now, frame, sweep, ret, hist, obs>>

stringEntry(v, c, e) == [value |-> v, createdAt |-> c, expiresAt |-> e]
ZeroEntry == stringEntry(<<>>, ZeroTime, ZeroTime)

EmptyMap == [k \in {} |-> ZeroEntry]
MapSet(m, k, e) == [x \in (DOMAIN m) \cup {k} |-> IF x = k THEN e ELSE m[x]]
MapDelete(m, k) == [x \in (DOMAIN m) \ {k} |-> m[x]]
MapGet(m, k) == IF k \in DOMAIN m THEN m[k] ELSE ZeroEntry

\* time.Time methods
After(t, u) == t > u
IsZero(t) == t = ZeroTime

IdleFrame ==
  [pc |-> "idle", key |-> "", value |-> <<>>, expiration |-> 0, delta |-> 0,
   createdAt |-> ZeroTime, exists |-> FALSE, entry |-> ZeroEntry]

NoRet ==
  [op |-> "none", key |-> "", value |-> <<>>, ok |-> FALSE, n |-> 0,
   err |-> FALSE, keys |-> <<>>]

NoHist ==
  [kind |-> "none", value |-> <<>>, delta |-> 0, ttl |-> 0, setExp |-> ZeroTime]

NoGot == [done |-> FALSE, err |-> FALSE, n |-> 0]
NoObs ==
  [got |-> [t \in Threads |-> NoGot], started |-> FALSE, start |-> 0,
   swept |-> FALSE]

\* ------------------------------------------------------------- the lock
\* sync.RWMutex.  mu.writers and mu.readers are the goroutines holding the
\* lock in each mode; mu.waiting is the queue of the goroutines blocked in
\* Lock ("w") or RLock ("r"), in the order they arrived.  The mutex lets no
\* blocked goroutine starve (a blocked Lock keeps later RLocks out, Unlock
\* lets the blocked RLocks in before the next Lock): a goroutine takes the
\* lock when no goroutine is blocked, or when it heads the queue.
Unlocked == [writers |-> {}, readers |-> {}, waiting |-> <<>>]

Blocked(p) == \E i \in 1..Len(mu.waiting) : mu.waiting[i].p = p

Served(p, mode) ==
  \/ mu.waiting = <<>>
  \/ mu.waiting # <<>> /\ Head(mu.waiting) = [p |-> p, mode |-> mode]

Leave(q) == IF q = <<>> THEN q ELSE Tail(q)

\* Lock waits until no goroutine holds the lock in either mode.
Lock(p) ==
  /\ mu.writers = {} /\ mu.readers = {}
  /\ Served(p, "w")
  /\ mu' = [mu EXCEPT !.writers = @ \cup {p}, !.waiting = Leave(@)]
\* RLock waits until no goroutine holds the lock in write mode.
RLock(p) ==
  /\ mu.writers = {}
  /\ Served(p, "r")
  /\ mu' = [mu EXCEPT !.readers = @ \cup {p}, !.waiting = Leave(@)]
\* A goroutine finds the lock taken, or others blocked before it, and
\* blocks.
LockWait(p, mode) ==
  /\ ~Blocked(p)
  /\ p \notin mu.writers \cup mu.readers
  /\ mu' = [mu EXCEPT !.waiting = Append(@, [p |-> p, mode |-> mode])]
\* Unlock and RUnlock, as deferred by the goroutine that holds the lock.
Unlock(p) == mu' = [mu EXCEPT !.writers = @ \ {p}]
RUnlock(p) == mu' = [mu EXCEPT !.readers = @ \ {p}]

Init ==
  /\ data = EmptyMap
  /\ mu = Unlocked
  /\ now = StartTime
  /\ frame = [t \in Threads |-> IdleFrame]
  /\ sweep = "wait"
  /\ ret = NoRet
  /\ hist = [k \in KeySet |-> NoHist]
  /\ obs = NoObs

\* What every step that is not a return leaves in ret.
Calls(t, f) ==
  /\ frame[t].pc = "idle"
  /\ frame' = [frame EXCEPT ![t] = f]
  /\ ret' = NoRet

Returns(t, r) ==
  /\ frame' = [frame EXCEPT ![t] = IdleFrame]
  /\ ret' = r

\* ------------------------------------------------------------- Set
\* The entry Set builds: createdAt and expiresAt come from two calls of
\* time.Now(), the second one at time t.
SetEntry(value, createdAt, t, expiration) ==
  stringEntry(value, createdAt, t + expiration)

\* Set takes the lock and reads the clock for createdAt.
SetCall(t, in) ==
  /\ Lock(t)
  /\ Calls(t, [IdleFrame EXCEPT !.pc = "Set", !.key = in[1],
                                !.value = in[2], !.expiration = in[3],
                                !.createdAt = now])
  /\ UNCHANGED <<data, now, sweep, hist, obs>>

SetLock(t) == \E in \in SetInputs : SetCall(t, in)

\* Set reads the clock for expiresAt, stores the entry, unlocks and returns.
SetReturn(t) ==
  /\ frame[t].pc = "Set"
  /\ LET f == frame[t]
         e == SetEntry(f.value, f.createdAt, now, f.expiration)
     IN  /\ data' = MapSet(data, f.key, e)
         /\ hist' = [hist EXCEPT ![f.key] =
                       [kind |-> "set", value |-> f.value, delta |-> 0,
                        ttl |-> f.expiration, setExp |-> now + f.expiration]]
         /\ Returns(t, [NoRet EXCEPT !.op = "Set", !.key = f.key, !.ok = TRUE])
  /\ Unlock(t)
  /\ UNCHANGED <<now, sweep, obs>>

\* ------------------------------------------------------------- Get
\* Mutant of GetExpired: the comparison the wrong way round.
GetExpiredSwapped(entry, t) == After(entry.expiresAt, t)

\* Get's expiry test.
GetExpired(entry, t) == After(t, entry.expiresAt)

\* What Get returns from map m at time t.
GetResult(m, key, t) ==
  IF key \notin DOMAIN m THEN [value |-> <<>>, ok |-> FALSE]
  ELSE IF GetExpired(m[key], t) THEN [value |-> <<>>, ok |-> FALSE]
  ELSE [value |-> m[key].value, ok |-> TRUE]

\* Get takes the lock in read mode.
GetCall(t, k) ==
  /\ RLock(t)
  /\ Calls(t, [IdleFrame EXCEPT !.pc = "Get", !.key = k])
  /\ UNCHANGED <<data, now, sweep, hist, obs>>

GetLock(t) == \E k \in KeySet : GetCall(t, k)

\* Mutant of GetReturn: removes the entry it finds expired.
GetReturnEvicts(t) ==
  /\ frame[t].pc = "Get"
  /\ LET k == frame[t].key
         r == GetResult(data, k, now)
     IN  /\ Returns(t, [NoRet EXCEPT !.op = "Get", !.key = k,
                                     !.value = r.value, !.ok = r.ok])
         /\ data' = IF k \in DOMAIN data /\ ~r.ok THEN MapDelete(data, k)
                    ELSE data
  /\ RUnlock(t)
  /\ UNCHANGED <<now, sweep, hist, obs>>

GetReturn(t) ==
  /\ frame[t].pc = "Get"
  /\ LET r == GetResult(data, frame[t].key, now)
     IN  Returns(t, [NoRet EXCEPT !.op = "Get", !.key = frame[t].key,
                                  !.value = r.value, !.ok = r.ok])
  /\ RUnlock(t)
  /\ UNCHANGED <<data, now, sweep, hist, obs>>

\* ------------------------------------------------------------- Delete
\* Mutant of DeleteResult: reports the removal without doing it.
DeleteResultKeeps(m, key) == [data |-> m, ok |-> key \in DOMAIN m]

\* What Delete makes of map m, and whether it removed an entry.
DeleteResult(m, key) ==
  IF key \in DOMAIN m THEN [data |-> MapDelete(m, key), ok |-> TRUE]
  ELSE [data |-> m, ok |-> FALSE]

\* Delete takes the lock.
DeleteCall(t, k) ==
  /\ Lock(t)
  /\ Calls(t, [IdleFrame EXCEPT !.pc = "Delete", !.key = k])
  /\ UNCHANGED <<data, now, sweep, hist, obs>>

DeleteLock(t) == \E k \in KeySet : DeleteCall(t, k)

DeleteReturn(t) ==
  /\ frame[t].pc = "Delete"
  /\ LET k == frame[t].key
         r == DeleteResult(data, k)
     IN  /\ data' = r.data
         /\ hist' = [hist EXCEPT ![k] = [NoHist EXCEPT !.kind = "delete"]]
         /\ Returns(t, [NoRet EXCEPT !.op = "Delete", !.key = k, !.ok = r.ok])
  /\ Unlock(t)
  /\ UNCHANGED <<now, sweep, obs>>

\* ------------------------------------------------------------- Increment
\* The entry Increment creates for a key the map does not hold.
IncrementCreate(delta, t) == stringEntry(Sprintf_d(delta), t, ZeroTime)

\* Mutant of IncrementValue: subtracts.
IncrementValueSub(currentValue, delta) == WrapInt(currentValue - delta)

\* newValue := currentValue + delta
IncrementValue(currentValue, delta) == WrapInt(currentValue + delta)

\* Mutant of IncrementUpdate: stores the entry without its expiry.
IncrementUpdateNoExpiry(entry, newValue) ==
  stringEntry(Sprintf_d(newValue), entry.createdAt, ZeroTime)

\* The entry Increment stores over a parsed entry.
IncrementUpdate(entry, newValue) ==
  stringEntry(Sprintf_d(newValue), entry.createdAt, entry.expiresAt)

\* What Increment, having read (entry, exists) for key, makes of map m at
\* time t, and what it returns.
IncrementResult(m, key, exists, entry, delta, t) ==
  IF ~exists
  THEN [data |-> MapSet(m, key, IncrementCreate(delta, t)),
        n |-> delta, err |-> FALSE]
  ELSE LET p == Sscanf_d(entry.value)
           newValue == IncrementValue(p.v, delta)
       IN  IF p.err THEN [data |-> m, n |-> 0, err |-> TRUE]
           ELSE [data |-> MapSet(m, key, IncrementUpdate(entry, newValue)),
                 n |-> newValue, err |-> FALSE]

\* The history of a key after a successful Increment.  An entry that Set
\* stored and Increment updated is still that entry, with the expiresAt Set
\* gave it ("setincr"); on a key the map did not hold, Increment starts a
\* new entry ("create").
HistIncrement(h, exists, delta) ==
  IF ~exists THEN [NoHist EXCEPT !.kind = "create", !.delta = delta]
  ELSE IF h.kind \in {"set", "setincr"}
       THEN [h EXCEPT !.kind = "setincr", !.value = <<>>, !.ttl = 0]
       ELSE [NoHist EXCEPT !.kind = "incr"]

\* Mutant of IncrementAcquire: does not take the lock.
IncrementAcquireNone(t) == UNCHANGED mu

\* Mutant of IncrementAcquire: takes the lock in read mode.
IncrementAcquireShared(t) == RLock(t)

\* Increment's way of taking the lock.
IncrementAcquire(t) == Lock(t)

\* Increment takes the lock and reads the entry of key k.
IncrementCall(t, k, d) ==
  /\ IncrementAcquire(t)
  /\ Calls(t, [IdleFrame EXCEPT !.pc = "Increment", !.key = k, !.delta = d,
                                !.exists = (k \in DOMAIN data),
                                !.entry = MapGet(data, k)])
  /\ UNCHANGED <<data, now, sweep, hist>>

\* Mutant of IncrementBody: the error return does not unlock.
IncrementBodyLeaks(t) ==
  /\ frame[t].pc = "Increment"
  /\ LET f == frame[t]
         r == IncrementResult(data, f.key, f.exists, f.entry, f.delta, now)
     IN  /\ data' = r.data
         /\ hist' = IF r.err THEN hist
                    ELSE [hist EXCEPT ![f.key] = HistIncrement(@, f.exists, f.delta)]
         /\ Returns(t, [NoRet EXCEPT !.op = "Increment", !.key = f.key,
                                     !.n = r.n, !.err = r.err])
         /\ mu' = IF r.err THEN mu
                  ELSE [mu EXCEPT !.writers = @ \ {t}, !.readers = @ \ {t}]
  /\ UNCHANGED <<now, sweep>>

\* Increment stores the new entry (or fails), unlocks and returns.
IncrementBody(t) ==
  /\ frame[t].pc = "Increment"
  /\ LET f == frame[t]
         r == IncrementResult(data, f.key, f.exists, f.entry, f.delta, now)
     IN  /\ data' = r.data
         /\ hist' = IF r.err THEN hist
                    ELSE [hist EXCEPT ![f.key] = HistIncrement(@, f.exists, f.delta)]
         /\ Returns(t, [NoRet EXCEPT !.op = "Increment", !.key = f.key,
                                     !.n = r.n, !.err = r.err])
  /\ mu' = [mu EXCEPT !.writers = @ \ {t}, !.readers = @ \ {t}]
  /\ UNCHANGED <<now, sweep>>

IncrementLock(t) ==
  /\ \E in \in IncrementInputs : IncrementCall(t, in[1], in[2])
  /\ UNCHANGED obs

IncrementReturn(t) == IncrementBody(t) /\ UNCHANGED obs

\* ------------------------------------------------------------- Keys
\* Mutant of KeysResult: leaves out the keys whose entries have an expiry.
KeysResultNoExpiry(m) ==
  LET ks == { k \in DOMAIN m : IsZero(m[k].expiresAt) }
      n == Cardinality(ks)
  IN  { s \in [1..n -> ks] : \A i, j \in 1..n : s[i] = s[j] => i = j }

\* The slices Keys can return for map m: the keys in any order of iteration.
KeysResult(m) ==
  LET n == Cardinality(DOMAIN m)
  IN  { s \in [1..n -> DOMAIN m] : \A i, j \in 1..n : s[i] = s[j] => i = j }

KeysLock(t) ==
  /\ RLock(t)
  /\ Calls(t, [IdleFrame EXCEPT !.pc = "Keys"])
  /\ UNCHANGED <<data, now, sweep, hist, obs>>

KeysReturn(t) ==
  /\ frame[t].pc = "Keys"
  /\ \E s \in KeysResult(data) :
       Returns(t, [NoRet EXCEPT !.op = "Keys", !.keys = s])
  /\ RUnlock(t)
  /\ UNCHANGED <<data, now, sweep, hist, obs>>

\* ------------------------------------------------------------- cleanup
\* Mutant of CleanupExpired: removes every entry that has an expiry.
CleanupExpiredNoAfter(entry, t) == ~IsZero(entry.expiresAt)

\* Mutant of CleanupExpired: does not test for the zero time.
CleanupExpiredNoZero(entry, t) == After(t, entry.expiresAt)

\* Mutant of CleanupExpired: the comparison the wrong way round.
CleanupExpiredSwapped(entry, t) ==
  ~IsZero(entry.expiresAt) /\ After(entry.expiresAt, t)

\* backgroundCleanup's test of one entry at time t.
CleanupExpired(entry, t) ==
  ~IsZero(entry.expiresAt) /\ After(t, entry.expiresAt)

\* The map one pass of backgroundCleanup leaves.
CleanupPass(m, t) ==
  [k \in { x \in DOMAIN m : ~CleanupExpired(m[x], t) } |-> m[k]]

\* The ticker fires and backgroundCleanup takes the lock.
CleanupLock ==
  /\ sweep = "wait"
  /\ Lock(Sweeper)
  /\ sweep' = "locked"
  /\ ret' = NoRet
  /\ UNCHANGED <<data, now, frame, hist, obs>>

CleanupBody ==
  /\ sweep = "locked"
  /\ data' = CleanupPass(data, now)
  /\ Unlock(Sweeper)
  /\ sweep' = "wait"
  /\ ret' = NoRet
  /\ UNCHANGED <<now, frame, hist>>

CleanupUnlock == CleanupBody /\ UNCHANGED obs

\* ------------------------------------------------------------- the clock
Tick ==
  /\ now < MaxTime
  /\ now' = now + 1
  /\ ret' = NoRet
  /\ UNCHANGED <<data, mu, frame, sweep, hist, obs>>

Next ==
  \/ \E t \in Threads :
       \/ SetLock(t) \/ SetReturn(t)
       \/ GetLock(t) \/ GetReturn(t)
       \/ DeleteLock(t) \/ DeleteReturn(t)
       \/ IncrementLock(t) \/ IncrementReturn(t)
       \/ KeysLock(t) \/ KeysReturn(t)
  \/ CleanupLock
  \/ CleanupUnlock
  \/ Tick

Spec == Init /\ [][Next]_vars

\* ------------------------------------------------- callers that block
\* SpecLive: the store with callers and backgroundCleanup that block on
\* the lock.  A caller blocked in Lock or RLock takes the lock when it is
\* served and then runs one of the methods of that mode; the ticker fires
\* and backgroundCleanup blocks in Lock.
CallerWaits(t) ==
  /\ frame[t].pc = "idle"
  /\ \E mode \in {"r", "w"} : LockWait(t, mode)
  /\ ret' = NoRet
  /\ UNCHANGED <<data, now, frame, sweep, hist, obs>>

TickerFires ==
  /\ sweep = "wait"
  /\ LockWait(Sweeper, "w")
  /\ ret' = NoRet
  /\ UNCHANGED <<data, now, frame, sweep, hist, obs>>

\* The calls of SpecLive are on one key: Set with a numeric and with a
\* non-numeric value that expire at once, Get, Delete, Increment and Keys.
LiveKey == IncKey
LiveSetInputs == { <<LiveKey, <<"0">>, 0>>, <<LiveKey, <<"x">>, 0>> }

CallerLocks(t) ==
  \/ \E in \in LiveSetInputs : SetCall(t, in)
  \/ GetCall(t, LiveKey)
  \/ DeleteCall(t, LiveKey)
  \/ IncrementCall(t, LiveKey, 1) /\ UNCHANGED obs
  \/ KeysLock(t)

CallerReturns(t) ==
  \/ SetReturn(t) \/ GetReturn(t) \/ DeleteReturn(t) \/ IncrementReturn(t)
  \/ KeysReturn(t)

NextLive ==
  \/ \E t \in Threads : CallerWaits(t) \/ CallerLocks(t) \/ CallerReturns(t)
  \/ TickerFires
  \/ CleanupLock
  \/ CleanupUnlock
  \/ Tick

\* The scheduler runs every goroutine that can run: a blocked goroutine
\* that is served takes the lock, a method that holds the lock runs to its
\* return, and the ticker fires.
FairLive ==
  /\ \A t \in Threads : WF_vars(Blocked(t) /\ CallerLocks(t))
  /\ \A t \in Threads : WF_vars(CallerReturns(t))
  /\ WF_vars(TickerFires)
  /\ WF_vars(Blocked(Sweeper) /\ CleanupLock)
  /\ WF_vars(CleanupUnlock)

SpecLive == Init /\ [][NextLive]_vars /\ FairLive

\* ------------------------------------------------- concurrent Increments
\* SpecInc: every caller goroutine calls Increment(IncKey, 1) once, while
\* backgroundCleanup and the clock run.  The store starts empty, or with
\* the entry that Set(IncKey, "n", d) or Increment(IncKey, n) left at
\* StartTime, for n in IncStarts.
IncStarts == {-1, 0}

InitInc ==
  /\ \/ /\ data = EmptyMap
        /\ hist = [k \in KeySet |-> NoHist]
        /\ obs = NoObs
     \/ \E n \in IncStarts, d \in Durations :
          /\ data = MapSet(EmptyMap, IncKey,
                           SetEntry(Sprintf_d(n), StartTime, StartTime, d))
          /\ hist = [k \in KeySet |->
                       IF k = IncKey
                       THEN [kind |-> "set", value |-> Sprintf_d(n), delta |-> 0,
                             ttl |-> d, setExp |-> StartTime + d]
                       ELSE NoHist]
          /\ obs = NoObs
     \/ \E n \in IncStarts :
          /\ data = MapSet(EmptyMap, IncKey, IncrementCreate(n, StartTime))
          /\ hist = [k \in KeySet |->
                       IF k = IncKey
                       THEN [NoHist EXCEPT !.kind = "create", !.delta = n]
                       ELSE NoHist]
          /\ obs = NoObs
  /\ mu = Unlocked
  /\ now = StartTime
  /\ frame = [t \in Threads |-> IdleFrame]
  /\ sweep = "wait"
  /\ ret = NoRet

IncrementOnce(t) ==
  /\ ~obs.got[t].done
  /\ IncrementCall(t, IncKey, 1)
  /\ obs' = IF obs.started THEN obs
            ELSE [obs EXCEPT !.started = TRUE,
                             !.start = Sscanf_d(MapGet(data, IncKey).value).v]

IncrementLogged(t) ==
  /\ IncrementBody(t)
  /\ obs' = [obs EXCEPT !.got[t] = [done |-> TRUE, err |-> ret'.err, n |-> ret'.n]]

CleanupLogged ==
  /\ CleanupBody
  /\ obs' = [obs EXCEPT !.swept =
                @ \/ (obs.started /\ IncKey \in DOMAIN data /\ IncKey \notin DOMAIN data')]

NextInc ==
  \/ \E t \in Threads : IncrementOnce(t) \/ IncrementLogged(t)
  \/ CleanupLock
  \/ CleanupLogged
  \/ Tick

SpecInc == InitInc /\ [][NextInc]_vars

\* ------------------------------------------------------------- claims
\* Goroutine t's call of op returns in this step.
Returned(t, op) == frame[t].pc = op /\ frame'[t].pc = "idle"

\* The spec's notion of a live entry at time t.
Live(entry, t) == IsZero(entry.expiresAt) \/ t <= entry.expiresAt

\* s is a base-10 integer: an optional sign and then digits, nothing else.
IsBase10Integer(s) ==
  LET u == IF s # <<>> /\ Head(s) \in {"+", "-"} THEN Tail(s) ELSE s
  IN  u # <<>> /\ \A i \in 1..Len(u) : IsDigit(u[i])

\* C1: a Get of a key that Increment created, and that no Set, Delete or
\* Increment touched since, returns (decimal string of delta, true), at
\* any later time and after any number of cleanup passes.
C1_IncrementCreatedNeverExpires ==
  (ret.op = "Get" /\ hist[ret.key].kind = "create")
    => (ret.ok /\ ret.value = Sprintf_d(hist[ret.key].delta))

\* C2: Get returns (value, true) exactly when the map holds an entry for
\* the key and the entry is live (expiresAt absent, or now <= expiresAt),
\* and found = false otherwise.
C2_GetFoundIffLive ==
  ret.op = "Get" =>
    LET present == ret.key \in DOMAIN data
    IN  /\ ret.ok = (present /\ Live(data[ret.key], now))
        /\ ret.ok => ret.value = data[ret.key].value

\* C3: a Get that follows Set(key, value, ttl), ttl > 0, before the ttl
\* has elapsed since the Set stored the entry, with no Set, Delete or
\* Increment on the key in between, returns (value, true), whatever
\* backgroundCleanup did in between.
C3_SetThenGetRoundTrip ==
  (/\ ret.op = "Get"
   /\ hist[ret.key].kind = "set"
   /\ hist[ret.key].ttl > 0
   /\ now < hist[ret.key].setExp)
    => (ret.ok /\ ret.value = hist[ret.key].value)

\* C3 witness: such a Get returns after the clock has moved on since the
\* Set read it for createdAt.
C3_Witness ==
  /\ ret.op = "Get"
  /\ hist[ret.key].kind = "set"
  /\ hist[ret.key].ttl > 0
  /\ now < hist[ret.key].setExp
  /\ ret.key \in DOMAIN data
  /\ now > data[ret.key].createdAt
  /\ ret.ok

\* C4: after Set(key, value, ttl), once the clock is strictly past the
\* entry's expiresAt, and as long as the key still has that entry (no Set
\* or Delete replaced or removed it; Increment updates it and keeps its
\* expiresAt), every Get of the key returns found = false, whether cleanup
\* has removed the entry or not.
C4_ExpiredSetEntryNotFound ==
  (/\ ret.op = "Get"
   /\ hist[ret.key].kind \in {"set", "setincr"}
   /\ now > hist[ret.key].setExp)
    => ~ret.ok

\* C4 witness: such a Get returns while the expired entry is still stored.
C4_Witness ==
  /\ ret.op = "Get"
  /\ hist[ret.key].kind = "set"
  /\ now > hist[ret.key].setExp
  /\ ret.key \in DOMAIN data
  /\ ~ret.ok

\* Every goroutine's Increment(IncKey, 1) of SpecInc has returned.
AllIncremented == \A t \in Threads : obs.got[t].done

\* No update is lost: the calls returned distinct numbers and IncKey holds
\* the number it started with plus the number of calls.
NoLostUpdate ==
  /\ \A t \in Threads : ~obs.got[t].err
  /\ \A t, u \in Threads : obs.got[t].n = obs.got[u].n => t = u
  /\ IncKey \in DOMAIN data
  /\ data[IncKey].value = Sprintf_d(WrapInt(obs.start + NumThreads))

\* C5 as stated: N concurrent Increment(key, 1), interleaved with each
\* other and with backgroundCleanup, lose no update: when the last of them
\* returns, the calls have returned N distinct numbers and the key holds
\* its starting number plus N.
C5_ConcurrentIncrementsAddUp ==
  (AllIncremented /\ ret.op = "Increment") => NoLostUpdate

\* C5 as amended: the same, provided backgroundCleanup has not removed the
\* key's entry since the first of the calls took the lock.
C5_ConcurrentIncrementsAddUpUnlessSwept ==
  (AllIncremented /\ ~obs.swept) => NoLostUpdate

\* C5 witness: all calls have returned, on an entry that Set stored and
\* that has expired, with cleanup passes that did not remove it.
C5_Witness ==
  /\ AllIncremented
  /\ ~obs.swept
  /\ IncKey \in DOMAIN data
  /\ ~IsZero(data[IncKey].expiresAt)
  /\ now > data[IncKey].expiresAt

\* C6: Increment of a present key whose value is not a base-10 integer
\* returns the error and leaves the whole map as it was.
C6_NonNumericIncrementFails ==
  [][\A t \in Threads :
       (/\ Returned(t, "Increment")
        /\ frame[t].key \in DOMAIN data
        /\ ~IsBase10Integer(data[frame[t].key].value))
         => (ret'.err /\ data' = data)]_vars

\* C7: Increment(key, delta) of a present key whose value is the decimal
\* string of n returns n + delta (Go's int addition) and stores the decimal
\* string of n + delta, also when delta is negative and the sum below zero.
C7_IncrementAddsDelta ==
  [][\A t \in Threads : \A n \in MinInt..MaxInt :
       (/\ Returned(t, "Increment")
        /\ frame[t].key \in DOMAIN data
        /\ data[frame[t].key].value = Sprintf_d(n))
         => (/\ ~ret'.err
             /\ ret'.n = WrapInt(n + frame[t].delta)
             /\ frame[t].key \in DOMAIN data'
             /\ data'[frame[t].key].value = Sprintf_d(WrapInt(n + frame[t].delta)))]_vars

\* C7 witness: an Increment has returned a negative number.
C7_Witness ==
  /\ ret.op = "Increment"
  /\ ~ret.err
  /\ ret.n < 0
  /\ hist[ret.key].kind \in {"incr", "setincr"}

\* C8: Delete removes the entry if one is stored, live or expired, and
\* returns true exactly then; on an absent key it returns false and changes
\* nothing; after a Delete, Get returns found = false until Set or
\* Increment creates the key again.
C8_DeleteRemoves ==
  /\ [][\A t \in Threads :
          Returned(t, "Delete") =>
            /\ ret'.ok = (frame[t].key \in DOMAIN data)
            /\ frame[t].key \notin DOMAIN data'
            /\ \A k \in KeySet \ {frame[t].key} :
                 /\ (k \in DOMAIN data') = (k \in DOMAIN data)
                 /\ k \in DOMAIN data => data'[k] = data[k]]_vars
  /\ []((ret.op = "Get" /\ hist[ret.key].kind = "delete") => ~ret.ok)

\* C8 witness: a Delete has removed an entry and another key is stored.
C8_Witness ==
  /\ ret.op = "Delete"
  /\ ret.ok
  /\ ret.key \notin DOMAIN data
  /\ DOMAIN data # {}

\* C9: Set succeeds and replaces the entry of key: the new entry has the
\* value, createdAt equal to the time of the Set and expiresAt equal to
\* that time plus duration; no other key's entry changes.
C9_SetReplacesEntry ==
  [][\A t \in Threads :
       Returned(t, "Set") =>
         /\ ret'.ok
         /\ frame[t].key \in DOMAIN data'
         /\ \E at \in frame[t].createdAt..now :
              data'[frame[t].key] =
                stringEntry(frame[t].value, at, at + frame[t].expiration)
         /\ \A k \in KeySet \ {frame[t].key} :
              /\ (k \in DOMAIN data') = (k \in DOMAIN data)
              /\ k \in DOMAIN data => data'[k] = data[k]]_vars

\* C10: Keys returns exactly the keys the map holds, each once, expired
\* entries included, and no key that Delete or cleanup removed.
C10_KeysListsStoredKeys ==
  ret.op = "Keys" =>
    /\ { ret.keys[i] : i \in 1..Len(ret.keys) } = DOMAIN data
    /\ Len(ret.keys) = Cardinality(DOMAIN data)

\* C10 witness: Keys lists two keys, one of which Get would not find.
C10_Witness ==
  /\ ret.op = "Keys"
  /\ Len(ret.keys) = 2
  /\ \E i \in 1..Len(ret.keys) : ~GetResult(data, ret.keys[i], now).ok

\* The entry's expiresAt is set and the time t is strictly past it.
Passed(entry, t) == ~IsZero(entry.expiresAt) /\ t > entry.expiresAt

\* Every key other than k has in the next state the entry it has now.
OthersUnchanged(k) ==
  \A j \in KeySet \ {k} :
    /\ (j \in DOMAIN data') = (j \in DOMAIN data)
    /\ j \in DOMAIN data => data'[j] = data[j]

\* backgroundCleanup finishes a pass in this step.
CleanupPassed == sweep = "locked" /\ sweep' = "wait"

\* C11: under fair scheduling of the ticker and of the lock, a stored entry
\* whose expiresAt has passed does not stay: the key becomes absent from
\* the map (and so from Keys()) unless Set stores a new entry for it; and
\* an absent key stays absent until Set or Increment creates it.
C11_CleanupEventuallyRemoves ==
  /\ \A k \in KeySet :
       (k \in DOMAIN data /\ Passed(data[k], now))
         ~> (k \notin DOMAIN data \/ ~Passed(data[k], now))
  /\ [][\A k \in KeySet :
          (k \notin DOMAIN data /\ k \in DOMAIN data') =>
            \E t \in Threads :
              /\ Returned(t, "Set") \/ Returned(t, "Increment")
              /\ frame[t].key = k]_vars

\* C11 witness: the entry Set stored for a key has expired and cleanup has
\* removed it: the key is absent and no call holds or awaits the lock.
C11_Witness ==
  \E k \in KeySet :
    /\ hist[k].kind \in {"set", "setincr"}
    /\ now > hist[k].setExp
    /\ k \notin DOMAIN data
    /\ mu = Unlocked

\* Increment run alone on map m at time t: it reads the entry of key and
\* stores the result with nothing in between.
SeqIncrement(m, key, delta, t) ==
  IncrementResult(m, key, key \in DOMAIN m, MapGet(m, key), delta, t)

\* C12: the operations are linearizable in the order in which they took the
\* lock: while an operation holds the lock no other step changes the map,
\* what Increment read when it took the lock is still what the map holds,
\* and every operation returns, and leaves in the map, what it would if it
\* ran alone on the map as the operations before it left it.
C12_LinearizableInLockOrder ==
  /\ [](\A t \in Threads :
          frame[t].pc = "Increment" =>
            /\ frame[t].exists = (frame[t].key \in DOMAIN data)
            /\ frame[t].entry = MapGet(data, frame[t].key))
  /\ [][/\ \A t \in Threads :
             (frame[t].pc # "idle" /\ frame'[t].pc # "idle") => data' = data
        /\ (sweep = "locked" /\ sweep' = "locked") => data' = data
        /\ CleanupPassed => data' = CleanupPass(data, now)
        /\ \A t \in Threads :
             LET f == frame[t]
             IN  /\ Returned(t, "Set") =>
                      /\ data' = MapSet(data, f.key,
                                   SetEntry(f.value, f.createdAt, now, f.expiration))
                      /\ ret'.ok
                 /\ Returned(t, "Get") =>
                      /\ data' = data
                      /\ ret'.ok = GetResult(data, f.key, now).ok
                      /\ ret'.value = GetResult(data, f.key, now).value
                 /\ Returned(t, "Delete") =>
                      /\ data' = DeleteResult(data, f.key).data
                      /\ ret'.ok = DeleteResult(data, f.key).ok
                 /\ Returned(t, "Increment") =>
                      /\ data' = SeqIncrement(data, f.key, f.delta, now).data
                      /\ ret'.n = SeqIncrement(data, f.key, f.delta, now).n
                      /\ ret'.err = SeqIncrement(data, f.key, f.delta, now).err
                 /\ Returned(t, "Keys") =>
                      /\ data' = data
                      /\ ret'.keys \in KeysResult(data)]_vars

\* C12 witness: after Set and Increment on a key, a Get of it returns its
\* value while another Get or Keys holds the lock in read mode.
C12_Witness ==
  /\ ret.op = "Get"
  /\ ret.ok
  /\ hist[ret.key].kind = "setincr"
  /\ \E t \in Threads : frame[t].pc \in {"Get", "Keys"}

\* C13: a pass of backgroundCleanup, holding the write lock alone, removes
\* exactly the entries whose expiresAt is set and strictly before the time
\* of the pass: none without expiresAt, none still live, and it leaves none
\* whose expiresAt has passed; the entries it keeps are unchanged.
C13_CleanupRemovesExactlyExpired ==
  [][CleanupPassed =>
       /\ mu.writers = {Sweeper} /\ mu.readers = {}
       /\ DOMAIN data' = { k \in DOMAIN data : ~Passed(data[k], now) }
       /\ \A k \in DOMAIN data' : data'[k] = data[k]]_vars

\* C13 witness: cleanup has removed the expired entry that Set stored for
\* one key, and the map still holds an entry without expiry or a live one.
C13_Witness ==
  \E k \in KeySet :
    /\ hist[k].kind \in {"set", "setincr"}
    /\ k \notin DOMAIN data
    /\ sweep = "wait"
    /\ \E j \in DOMAIN data : ~Passed(data[j], now)

\* C14: a successful Increment of a present key changes only the value of
\* that entry: createdAt and expiresAt stay, and so does every other key.
C14_IncrementKeepsTimes ==
  [][\A t \in Threads :
       (/\ Returned(t, "Increment")
        /\ frame[t].key \in DOMAIN data
        /\ ~ret'.err)
         => (/\ frame[t].key \in DOMAIN data'
             /\ data'[frame[t].key].createdAt = data[frame[t].key].createdAt
             /\ data'[frame[t].key].expiresAt = data[frame[t].key].expiresAt
             /\ OthersUnchanged(frame[t].key))]_vars

\* C14 witness: Increment has updated an entry that Set gave an expiry,
\* after the time Set stored it, while the other key is stored.
C14_Witness ==
  /\ ret.op = "Increment"
  /\ ~ret.err
  /\ hist[ret.key].kind = "setincr"
  /\ ~IsZero(data[ret.key].expiresAt)
  /\ now > data[ret.key].createdAt
  /\ DOMAIN data = KeySet

\* C15: Get and Keys are read-only: no step of theirs changes the map; a
\* Get of an expired entry returns found = false and leaves the entry
\* stored.
C15_GetAndKeysReadOnly ==
  [][\A t \in Threads :
       (frame[t].pc \in {"Get", "Keys"} \/ frame'[t].pc \in {"Get", "Keys"})
         => data' = data]_vars

\* C15 witness: Get has returned found = false for an entry whose
\* expiresAt has passed and that is still stored.
C15_Witness ==
  /\ ret.op = "Get"
  /\ ~ret.ok
  /\ ret.key \in DOMAIN data
  /\ Passed(data[ret.key], now)

\* The goroutines inside a method that takes the lock in write mode, and
\* in read mode.
InWrite ==
  { t \in Threads : frame[t].pc \in {"Set", "Delete", "Increment"} }
    \cup (IF sweep = "locked" THEN {Sweeper} ELSE {})
InRead == { t \in Threads : frame[t].pc \in {"Get", "Keys"} }

\* C16: at most one of Set, Delete, Increment and the cleanup pass holds
\* the lock in write mode, no Get or Keys holds it in read mode at the same
\* time, every goroutine inside a method holds the lock in the method's
\* mode, and the map changes only in a step of the write-lock holder.
C16_LockDiscipline ==
  /\ [](/\ Cardinality(mu.writers) <= 1
        /\ mu.writers # {} => mu.readers = {}
        /\ mu.writers = InWrite
        /\ mu.readers = InRead)
  /\ [][data' # data =>
          \E p \in mu.writers : mu.writers = {p} /\ p \notin mu'.writers]_vars

\* C16 witness: two goroutines hold the lock in read mode together.
C16_Witness ==
  /\ Cardinality(mu.readers) >= 2
  /\ mu.writers = {}

\* A call of goroutine t has started and not returned: t is blocked on the
\* lock or inside a method.
Started(t) == Blocked(t) \/ frame[t].pc # "idle"

\* C17: every return, Increment's error return included, and every
\* cleanup pass releases the lock, and under fair scheduling every started
\* call completes and every started cleanup pass ends.
C17_EveryCallCompletes ==
  /\ [][/\ \A t \in Threads :
             (frame[t].pc # "idle" /\ frame'[t].pc = "idle") =>
               t \notin mu'.writers \cup mu'.readers
        /\ CleanupPassed => Sweeper \notin mu'.writers]_vars
  /\ \A t \in Threads : Started(t) ~> ~Started(t)
  /\ (Blocked(Sweeper) \/ sweep = "locked")
       ~> (~Blocked(Sweeper) /\ sweep = "wait")

\* C17 witness: Increment has returned the error and released the lock
\* while another caller and backgroundCleanup are blocked on it.
C17_Witness ==
  /\ ret.op = "Increment"
  /\ ret.err
  /\ mu.writers = {} /\ mu.readers = {}
  /\ Blocked(Sweeper)
  /\ \E t \in Threads : Blocked(t)

\* C18: no operation returns a value read from an entry that had expired:
\* Increment of a key whose entry has expired and is still stored behaves
\* as on an absent key and returns delta.
C18_IncrementIgnoresExpiredEntry ==
  [][\A t \in Threads :
       (/\ Returned(t, "Increment")
        /\ frame[t].key \in DOMAIN data
        /\ Passed(data[frame[t].key], now))
         => (~ret'.err /\ ret'.n = frame[t].delta)]_vars

\* C19: an entry that a cleanup pass running now would keep is one that
\* Get now finds.
C19_GetAndCleanupAgree ==
  \A k \in DOMAIN data :
    k \in DOMAIN CleanupPass(data, now) => GetResult(data, k, now).ok

\* C20: Increment succeeds on a present key only when the whole stored
\* value is a base-10 signed integer; otherwise it returns the error and
\* the stored value stays.
C20_IncrementNeedsWholeInteger ==
  [][\A t \in Threads :
       (Returned(t, "Increment") /\ frame[t].key \in DOMAIN data) =>
         /\ ~ret'.err => IsBase10Integer(data[frame[t].key].value)
         /\ ret'.err => data' = data]_vars

=============================================================================
